---- MODULE Spec2Model ----
(***************************************************************************)
(* Model of the job supervisor of the video interval cutter (src/main.py). *)
(*                                                                         *)
(* Two kinds of thread exist.  The GUI thread runs the Qt event loop of    *)
(* VideoIntervalCutter: button handlers, the slots of queued signals and   *)
(* the single-shot timer.  Every VideoProcessor is a QThread whose run()   *)
(* executes in a worker thread of its own and supervises one ffmpeg child  *)
(* process.                                                                *)
(*                                                                         *)
(* The finished signal is connected with the default (auto) connection to  *)
(* on_processing_finished, a method of an object living in the GUI thread: *)
(* an emission made by the worker thread is queued to the GUI event loop,  *)
(* an emission made by the GUI thread itself (cancel_processing called     *)
(* from the cancel button) runs the slot at once, inside the emit.         *)
(*                                                                         *)
(* Times are integers in hundredths of a second.                           *)
(***************************************************************************)
EXTENDS Integers, Sequences, FiniteSets, TLC

\* len(self.selected_files): the batch
NumFiles == 3
\* VideoProcessor instances created over a run of the application
MaxJobs == 3
\* lines the pipe from the child's standard output holds before the child
\* blocks in its write
PipeCap == 1
\* lines with a time= token that ffmpeg writes in one run
MaxLines == 3

Jobs == 1..MaxJobs

\* What the supervisor's environment can do in a run: the values
\* get_video_duration can return besides its failure value 0, in hundredths
\* of a second; the lines ffmpeg can write (<<>> for a line with no
\* time=HH:MM:SS.hh token, else the four two-digit groups of the token); the
\* codes ffmpeg can exit with by itself; what it can have written to its
\* standard error by then; whether subprocess.Popen can raise and whether
\* os.remove can; the platform, and what the probe of the encoders can do
\* (system, encoder_probes: see Platforms and EncoderProbes below).
\* A batch of plain files on a sound host:
PlainEnv ==
    [durations |-> {2500}, lines |-> {<<>>}, exit_codes |-> {0},
     stderr |-> {""},
     popen_raises |-> {FALSE}, remove_raises |-> {FALSE},
     chatty |-> FALSE,
     system |-> "Linux",
     encoder_probes |-> {[raises |-> FALSE, encoders |-> {"libx264"}]}]
\* Everything a single job can meet:
FullEnv ==
    [durations |-> {1000, 2500},
     lines |-> {<<>>, <<0, 0, 5, 0>>, <<0, 0, 12, 50>>, <<0, 0, 30, 0>>},
     exit_codes |-> {0, 1}, stderr |-> {"", "Conversion failed!"},
     popen_raises |-> BOOLEAN, remove_raises |-> BOOLEAN,
     chatty |-> FALSE,
     system |-> "Linux",
     encoder_probes |->
         {[raises |-> TRUE, encoders |-> {}],
          [raises |-> FALSE,
           encoders |-> {"h264_nvenc", "h264_vaapi", "libx264"}]}]
\* A job whose ffmpeg writes its banner and statistics to its standard
\* error, which Popen has connected to a pipe of ErrPipeCap blocks:
ErrPipeCap == 1
PipeEnv == [FullEnv EXCEPT !.chatty = TRUE]

NoTime == -1
SIGTERM_RC == -15

VARIABLES
    \* VideoIntervalCutter (GUI thread)
    current_processing,   \* index of the batch item being processed
    is_processing,        \* VideoIntervalCutter.is_processing
    cutter_is_paused,     \* VideoIntervalCutter.is_paused
    processor,            \* VideoIntervalCutter.processor: a job, 0 for None
    process_btn_enabled,  \* process_btn.isEnabled()
    timers,               \* pending QTimer.singleShot(2000, process_next_file)
    queue,                \* finished signals queued to the GUI event loop
    gui,                  \* where the GUI thread is: [pc, job], and boxes,
                          \* the "Complete" message boxes open on top
    njobs,                \* VideoProcessor instances created so far
    env,                  \* what the environment can do in this run
    call,                 \* the last call of a function checked by itself
    \* VideoProcessor j and its worker thread; four fields are history:
    \* remove_failed (os.remove has raised in cancel_processing), late (the
    \* signals other than finished that the job emitted after its first
    \* finished), consumed (the lines with a time= token that the read loop
    \* has parsed), resumed_at (how many of them it had parsed when
    \* resume_processing last continued the child under a running loop) and
    \* probe_raised (the probe of get_optimal_encoder has raised)
    vp,
    \* the ffmpeg child process of job j
    child,
    \* the file system: output[f] is 0 when the output path of batch item f
    \* does not exist, else the job whose child created it last
    output,
    \* history: the signals job j has emitted, in order
    events,
    \* history: the user has confirmed a cancel while a job was active, and
    \* has not started a batch since
    batch_cancelled

vars == <<current_processing, is_processing, cutter_is_paused, processor,
          process_btn_enabled, timers, queue, gui, njobs, env, call,
          vp, child, output, events, batch_cancelled>>

cutterVars == <<current_processing, is_processing, cutter_is_paused, processor,
                process_btn_enabled, timers, njobs, env, call, batch_cancelled>>

----------------------------------------------------------------------------
(* Pure helpers *)

Min(a, b) == IF a < b THEN a ELSE b

\* parse_ffmpeg_progress: the elapsed time of a line, NoTime for None
parse_ffmpeg_progress(line) ==
    IF Len(line) = 4
    THEN (line[1] * 3600 + line[2] * 60 + line[3]) * 100 + line[4]
    ELSE NoTime

\* A line of ffmpeg's output as text: a sequence of characters.
DigitChars == <<"0", "1", "2", "3", "4", "5", "6", "7", "8", "9">>
IsDigit(c) == \E d \in 1..10 : DigitChars[d] = c

\* int() of a group of two digits
int(group) ==
    LET Digit(c) == (CHOOSE d \in 1..10 : DigitChars[d] = c) - 1
    IN  Digit(group[1]) * 10 + Digit(group[2])

\* the pattern time=(\d{2}):(\d{2}):(\d{2})\.(\d{2}) matches at position i
match_at(line, i) ==
    /\ i + 15 <= Len(line)
    /\ SubSeq(line, i, i + 4) = <<"t", "i", "m", "e", "=">>
    /\ IsDigit(line[i + 5]) /\ IsDigit(line[i + 6])
    /\ line[i + 7] = ":"
    /\ IsDigit(line[i + 8]) /\ IsDigit(line[i + 9])
    /\ line[i + 10] = ":"
    /\ IsDigit(line[i + 11]) /\ IsDigit(line[i + 12])
    /\ line[i + 13] = "."
    /\ IsDigit(line[i + 14]) /\ IsDigit(line[i + 15])

\* a variant of re_search: the pattern is tried at the start of the line
\* only
re_match(line) ==
    IF match_at(line, 1)
    THEN <<int(SubSeq(line, 6, 7)), int(SubSeq(line, 9, 10)),
           int(SubSeq(line, 12, 13)), int(SubSeq(line, 15, 16))>>
    ELSE <<>>

\* re.search and the int() of its four groups: the leftmost match, <<>>
\* when the pattern is nowhere in the line
re_search(line) ==
    LET matches == {i \in 1..Len(line) : match_at(line, i)}
    IN  IF matches = {} THEN <<>>
        ELSE LET i == CHOOSE m \in matches : \A n \in matches : m <= n
             IN  <<int(SubSeq(line, i + 5, i + 6)),
                   int(SubSeq(line, i + 8, i + 9)),
                   int(SubSeq(line, i + 11, i + 12)),
                   int(SubSeq(line, i + 14, i + 15))>>

\* parse_ffmpeg_progress of a line of text
parse_line(line) == parse_ffmpeg_progress(re_search(line))

\* Python's float arithmetic (IEEE 754 binary64, round to nearest, ties to
\* even) on non-negative numbers. A number is [bits, frac]: the binary
\* numeral bits, most significant bit first, divided by 2^frac.
MantissaBits == 53

\* the binary numeral of a small integer
Strip(bits) ==
    LET ones == {i \in 1..Len(bits) : bits[i] = 1}
    IN  IF ones = {} THEN <<>>
        ELSE SubSeq(bits, CHOOSE i \in ones : \A j \in ones : i <= j,
                    Len(bits))
Bits(n) == Strip([i \in 1..31 |-> (n \div 2^(31 - i)) % 2])
Zeros(n) == [i \in 1..n |-> 0]

\* Numerals are worked on eight bits at a time.
Byte(bits) ==
    128 * bits[1] + 64 * bits[2] + 32 * bits[3] + 16 * bits[4]
        + 8 * bits[5] + 4 * bits[6] + 2 * bits[7] + bits[8]
ByteBits(n) == [i \in 1..8 |-> (n \div 2^(8 - i)) % 2]
Padded(bits) == Zeros((8 - (Len(bits) % 8)) % 8) \o bits

\* the small integer of a numeral
RECURSIVE value_bytes(_)
value_bytes(bits) ==
    IF bits = <<>> THEN 0
    ELSE 256 * value_bytes(SubSeq(bits, 1, Len(bits) - 8))
             + Byte(SubSeq(bits, Len(bits) - 7, Len(bits)))
Value(bits) == value_bytes(Padded(bits))

plus_one(bits) ==
    LET zeros == {i \in 1..Len(bits) : bits[i] = 0}
    IN  IF zeros = {} THEN <<1>> \o Zeros(Len(bits))
        ELSE LET z == CHOOSE i \in zeros : \A j \in zeros : j <= i
             IN  SubSeq(bits, 1, z - 1) \o <<1>> \o Zeros(Len(bits) - z)

\* bits times a small integer c
RECURSIVE times_bytes(_, _, _)
times_bytes(bits, c, carry) ==
    IF bits = <<>> THEN Bits(carry)
    ELSE LET t == Byte(SubSeq(bits, Len(bits) - 7, Len(bits))) * c + carry
         IN  times_bytes(SubSeq(bits, 1, Len(bits) - 8), c, t \div 256)
                 \o ByteBits(t % 256)
times(bits, c) == times_bytes(Padded(bits), c, 0)

\* bits divided by a small integer d: quotient and remainder
RECURSIVE divide_bytes(_, _, _, _)
divide_bytes(bits, d, rem, quot) ==
    IF bits = <<>> THEN [quot |-> quot, rem |-> rem]
    ELSE LET t == 256 * rem + Byte(SubSeq(bits, 1, 8))
         IN  divide_bytes(SubSeq(bits, 9, Len(bits)), d, t % d,
                          quot \o ByteBits(t \div d))
long_division(bits, d) == divide_bytes(Padded(bits), d, 0, <<>>)

\* the nearest float of x, where inexact says that x stands for a number
\* slightly larger than its bits
round_float(x, inexact) ==
    LET b == Strip(x.bits)
        drop == Len(b) - MantissaBits
    IN  IF drop <= 0 THEN [bits |-> b, frac |-> x.frac]
        ELSE LET kept == SubSeq(b, 1, MantissaBits)
                 rest == \/ inexact
                         \/ \E i \in (MantissaBits + 2)..Len(b) : b[i] = 1
                 up == /\ b[MantissaBits + 1] = 1
                       /\ rest \/ kept[MantissaBits] = 1
             IN  [bits |-> IF up THEN plus_one(kept) ELSE kept,
                  frac |-> x.frac - drop]

\* float(n) of a small integer
float(n) == [bits |-> Bits(n), frac |-> 0]

\* x / d for a float x and a float d that is a whole number
float_div(x, d) ==
    LET q == long_division(x.bits \o Zeros(64), d)
    IN  round_float([bits |-> q.quot, frac |-> x.frac + 64], q.rem # 0)

\* x * c for a float x and a small integer c
float_mul(x, c) ==
    round_float([bits |-> times(x.bits, c), frac |-> x.frac], FALSE)

\* n + x for an integer n and a float x below 1
float_add(n, x) ==
    round_float([bits |-> Bits(n) \o Zeros(x.frac - Len(x.bits)) \o x.bits,
                 frac |-> x.frac], FALSE)

\* int(x): the whole part
float_int(x) ==
    IF Len(x.bits) <= x.frac THEN 0
    ELSE Value(SubSeq(x.bits, 1, Len(x.bits) - x.frac))

\* current_time as parse_ffmpeg_progress computes it from the groups:
\* hours * 3600 + minutes * 60 + seconds + milliseconds / 100
float_time(line) ==
    float_add(line[1] * 3600 + line[2] * 60 + line[3],
              float_div(float(line[4]), 100))

\* min(int((current_time / self.total_duration) * 100), 100) for a
\* duration of a whole number of seconds
float_percent(line, total_seconds) ==
    Min(float_int(float_mul(float_div(float_time(line), total_seconds),
                            100)),
        100)

\* a variant of Percent: the percentage without the clamp to 100
Percent_unclamped(current_time, total) == (current_time * 100) \div total

\* progress = min(int((current_time / self.total_duration) * 100), 100)
\* in hundredths of a second; float_percent is the same expression in
\* floating point, and the two agree on the lines and durations of the
\* environments below.
Percent(current_time, total) == Min((current_time * 100) \div total, 100)

ProgressEv(p) == [sig |-> "progress_updated", value |-> p]
FinishedEv(ok, msg) == [sig |-> "finished", success |-> ok, message |-> msg]

MsgCancelled == "Processing was cancelled by user"
MsgNoDuration == "Could not determine video duration"
MsgSuccess == "Video processed successfully!"
MsgFFmpegFailed == "FFmpeg failed with return code"
MsgException == "str(e)"

Completed == FinishedEv(TRUE, MsgSuccess)
\* error_msg: the return code and, when stderr is not empty, its text
FFmpegFailed(returncode, stderr) ==
    [sig |-> "finished", success |-> FALSE, message |-> MsgFFmpegFailed,
     returncode |-> returncode, stderr |-> stderr]
Cancelled == FinishedEv(FALSE, MsgCancelled)

IsFinished(e) == e.sig = "finished"
IsProgress(e) == e.sig = "progress_updated"

\* the terminal events and the progress events job j has emitted
Terminal(j) == SelectSeq(events[j], IsFinished)
Progress(j) == SelectSeq(events[j], IsProgress)

\* VideoProcessor p of job j emits the signals sigs (progress_updated,
\* status_updated, time_info_updated, paused, cancelled), before any finished
\* of the same step
emit(p, j, sigs) ==
    [p EXCEPT !.late = IF Terminal(j) # <<>> THEN @ \cup sigs ELSE @]

----------------------------------------------------------------------------
(* The encoder selector and the select expression of the command *)

\* platform.system()
Platforms == {"Darwin", "Windows", "Linux", "FreeBSD"}

\* the encoder names looked for in the output of "ffmpeg -encoders", and one
\* that is present in every build
EncoderNames ==
    {"h264_videotoolbox", "h264_nvenc", "h264_qsv", "h264_vaapi", "libx264"}

\* what the capability probe (subprocess.run of ffmpeg -encoders) can do:
\* raise, or return a text in which some of the names occur
EncoderProbes ==
    [raises : {TRUE}, encoders : {{}}]
        \cup [raises : {FALSE}, encoders : SUBSET EncoderNames]

Choice(video_encoder, hwaccel) ==
    [video_encoder |-> video_encoder, hwaccel |-> hwaccel]

\* a variant of get_optimal_encoder: on Linux VAAPI is looked for first
get_optimal_encoder_vaapi_first(system, probe) ==
    IF probe.raises THEN Choice("libx264", "auto")
    ELSE IF system = "Darwin" /\ "h264_videotoolbox" \in probe.encoders
    THEN Choice("h264_videotoolbox", "videotoolbox")
    ELSE IF system = "Windows" /\ "h264_nvenc" \in probe.encoders
    THEN Choice("h264_nvenc", "cuda")
    ELSE IF system = "Windows" /\ "h264_qsv" \in probe.encoders
    THEN Choice("h264_qsv", "qsv")
    ELSE IF system = "Linux" /\ "h264_vaapi" \in probe.encoders
    THEN Choice("h264_vaapi", "vaapi")
    ELSE IF system = "Linux" /\ "h264_nvenc" \in probe.encoders
    THEN Choice("h264_nvenc", "cuda")
    ELSE Choice("libx264", "auto")

\* a variant of get_optimal_encoder: a probe that raises is taken for one
\* that found the hardware encoder of the platform
get_optimal_encoder_no_fallback(system, probe) ==
    IF system = "Darwin" THEN Choice("h264_videotoolbox", "videotoolbox")
    ELSE IF system \in {"Windows", "Linux"} THEN Choice("h264_nvenc", "cuda")
    ELSE Choice("libx264", "auto")

\* VideoProcessor.get_optimal_encoder: (video_encoder, hwaccel)
get_optimal_encoder(system, probe) ==
    IF probe.raises THEN Choice("libx264", "auto")
    ELSE IF system = "Darwin"
    THEN IF "h264_videotoolbox" \in probe.encoders
         THEN Choice("h264_videotoolbox", "videotoolbox")
         ELSE Choice("libx264", "auto")
    ELSE IF system = "Windows"
    THEN IF "h264_nvenc" \in probe.encoders THEN Choice("h264_nvenc", "cuda")
         ELSE IF "h264_qsv" \in probe.encoders THEN Choice("h264_qsv", "qsv")
         ELSE Choice("libx264", "auto")
    ELSE IF system = "Linux"
    THEN IF "h264_nvenc" \in probe.encoders THEN Choice("h264_nvenc", "cuda")
         ELSE IF "h264_vaapi" \in probe.encoders THEN Choice("h264_vaapi", "vaapi")
         ELSE Choice("libx264", "auto")
    ELSE Choice("libx264", "auto")

\* take_spin and skip_spin range over 1..300 seconds; the values tried
MaxTake == 3
MaxSkip == 3
\* sample times are counted in ticks of 1/TicksPerSecond second, up to
\* MaxTicks
TicksPerSecond == 2
MaxTicks == 24

\* the functions of ffmpeg's expression evaluator used by the filters:
\* mod(x, y) and between(x, min, max), which is 1 when min <= x <= max
mod(x, y) == x % y
between(x, min, max) == min <= x /\ x <= max

\* cycle_duration = self.take_duration + self.skip_duration
cycle_duration(take_duration, skip_duration) == take_duration + skip_duration

\* select='between(mod(t,{cycle_duration}),0,{self.take_duration})': whether
\* the sample of time t (in ticks; the durations in seconds) is kept
select(t, cycle, take_duration) ==
    between(mod(t, cycle * TicksPerSecond), 0, take_duration * TicksPerSecond)

\* the filter arguments, with the two durations left as written in the
\* f-strings
VideoFilter ==
    "select='between(mod(t,{cycle_duration}),0,{self.take_duration})', setpts=N/FRAME_RATE/TB"
AudioFilter ==
    "aselect='between(mod(t,{cycle_duration}),0,{self.take_duration})', asetpts=N/SR/TB"

\* 'nvenc' in video_encoder and 'qsv' in video_encoder, over the names an
\* encoder can have
has_nvenc(video_encoder) == video_encoder \in {"h264_nvenc", "hevc_nvenc"}
has_qsv(video_encoder) == video_encoder \in {"h264_qsv", "hevc_qsv"}

\* the branch of the if/elif chain of encoder-specific options that is
\* taken, "none" when no condition holds
tuning_branch(video_encoder) ==
    IF video_encoder = "libx264" THEN "libx264"
    ELSE IF video_encoder = "h264_videotoolbox" THEN "h264_videotoolbox"
    ELSE IF has_nvenc(video_encoder) THEN "nvenc"
    ELSE IF has_qsv(video_encoder) THEN "qsv"
    ELSE "none"

\* the options that branch adds
tuning(video_encoder) ==
    CASE tuning_branch(video_encoder) = "libx264" ->
             <<"-preset", "fast", "-crf", "23">>
      [] tuning_branch(video_encoder) = "h264_videotoolbox" ->
             <<"-b:v", "5000k", "-allow_sw", "1">>
      [] tuning_branch(video_encoder) = "nvenc" ->
             <<"-preset", "fast", "-cq", "23">>
      [] tuning_branch(video_encoder) = "qsv" ->
             <<"-preset", "fast", "-global_quality", "23">>
      [] OTHER -> <<>>

\* the options every command ends with
common_options(output_path) ==
    <<"-c:a", "aac", "-b:a", "128k",
      "-avoid_negative_ts", "make_zero",
      "-max_muxing_queue_size", "9999",
      "-fflags", "+genpts",
      "-movflags", "+faststart",
      "-progress", "pipe:1",
      "-y", output_path>>

\* a variant of command: the acceleration is added after the input file
command_hwaccel_after_input(choice, input_path, output_path) ==
    <<"ffmpeg", "-i", input_path>>
        \o (IF choice.hwaccel # "auto" THEN <<"-hwaccel", choice.hwaccel>>
            ELSE <<>>)
        \o <<"-threads", "0", "-vf", VideoFilter, "-af", AudioFilter,
             "-c:v", choice.video_encoder>>
        \o tuning(choice.video_encoder)
        \o common_options(output_path)

\* cmd, as run builds it for the choice of get_optimal_encoder
command(choice, input_path, output_path) ==
    <<"ffmpeg">>
        \o (IF choice.hwaccel # "auto" THEN <<"-hwaccel", choice.hwaccel>>
            ELSE <<>>)
        \o <<"-i", input_path>>
        \o <<"-threads", "0">>
        \o <<"-vf", VideoFilter>>
        \o <<"-af", AudioFilter>>
        \o <<"-c:v", choice.video_encoder>>
        \o tuning(choice.video_encoder)
        \o common_options(output_path)

NoCall == [fn |-> "none"]

----------------------------------------------------------------------------
(* Initial state: VideoIntervalCutter.__init__, nothing started *)

\* video_encoder and hwaccel before get_optimal_encoder has returned
NoEncoder == Choice("", "")

NewProcessor ==
    [file |-> 0, pc |-> "none", is_paused |-> FALSE, is_cancelled |-> FALSE,
     process |-> FALSE, total_duration |-> 0, current_progress |-> 0,
     line |-> <<>>, remove_failed |-> FALSE, late |-> {},
     consumed |-> <<>>, resumed_at |-> 0,
     encoder |-> NoEncoder, probe_raised |-> FALSE]

NoChild ==
    [state |-> "none", stopped |-> FALSE, sigterm |-> FALSE, returncode |-> 0,
     opened |-> FALSE, pipe |-> 0,
     spawns |-> 0,        \* the children subprocess.Popen has created
     errpipe |-> 0,       \* blocks in the pipe of the standard error
     errblocked |-> FALSE]  \* blocked in a write to the standard error

Init ==
    /\ current_processing = 0
    /\ is_processing = FALSE
    /\ cutter_is_paused = FALSE
    /\ processor = 0
    /\ process_btn_enabled = TRUE
    /\ timers = 0
    /\ queue = <<>>
    /\ gui = [pc |-> "idle", job |-> 0, boxes |-> 0]
    /\ njobs = 0
    /\ env = PlainEnv
    /\ call = NoCall
    /\ vp = [j \in Jobs |-> NewProcessor]
    /\ child = [j \in Jobs |-> NoChild]
    /\ output = [f \in 1..NumFiles |-> 0]
    /\ events = [j \in Jobs |-> <<>>]
    /\ batch_cancelled = FALSE

----------------------------------------------------------------------------
(* The ffmpeg child process and the signals sent to it *)

Alive(j) == child[j].state = "running"
Exited(j) == child[j].state = "exited"

\* Popen.terminate(): SIGTERM, not sent once the child has exited.  A stopped
\* process keeps the signal pending until it is continued.
terminate(c) == IF c.state = "running" THEN [c EXCEPT !.sigterm = TRUE] ELSE c

\* send_signal(SIGSTOP) and send_signal(SIGCONT)
sigstop(c) == IF c.state = "running" THEN [c EXCEPT !.stopped = TRUE] ELSE c
sigcont(c) == IF c.state = "running" THEN [c EXCEPT !.stopped = FALSE] ELSE c

\* ffmpeg opens (creates or truncates, -y) its output file
child_open(j) ==
    /\ Alive(j) /\ ~child[j].stopped /\ ~child[j].opened
    /\ ~child[j].errblocked
    /\ child' = [child EXCEPT ![j].opened = TRUE]
    /\ output' = [output EXCEPT ![vp[j].file] = j]
    /\ UNCHANGED <<cutterVars, queue, gui, vp, events>>

\* ffmpeg writes one line of progress to its standard output
child_write(j) ==
    /\ Alive(j) /\ ~child[j].stopped /\ child[j].opened
    /\ ~child[j].errblocked
    /\ child[j].pipe < PipeCap
    /\ child' = [child EXCEPT ![j].pipe = @ + 1]
    /\ UNCHANGED <<cutterVars, queue, gui, vp, output, events>>

\* a process that has exited: no pending signal, no open file; what it wrote
\* stays in the pipe
exited(c, rc) ==
    [c EXCEPT !.state = "exited", !.returncode = rc, !.stopped = FALSE,
              !.sigterm = FALSE, !.opened = FALSE, !.errblocked = FALSE]

\* ffmpeg exits by itself: with 0 once the output is written, with 1 on error
child_exit(j) ==
    /\ Alive(j) /\ ~child[j].stopped
    /\ ~child[j].errblocked
    /\ \E rc \in env.exit_codes :
         /\ rc = 0 => child[j].opened
         /\ child' = [child EXCEPT ![j] = exited(@, rc)]
    /\ UNCHANGED <<cutterVars, queue, gui, vp, output, events>>

\* ffmpeg writes a block of diagnostics to its standard error: into the
\* pipe while there is room, and blocks in the write once the pipe is full,
\* until somebody reads the pipe
child_write_err(j) ==
    /\ env.chatty
    /\ Alive(j) /\ ~child[j].stopped /\ ~child[j].errblocked
    /\ child' = [child EXCEPT ![j] =
                     IF @.errpipe < ErrPipeCap
                     THEN [@ EXCEPT !.errpipe = @ + 1]
                     ELSE [@ EXCEPT !.errblocked = TRUE]]
    /\ UNCHANGED <<cutterVars, queue, gui, vp, output, events>>

\* a pending SIGTERM is delivered to a child that is not stopped
child_sigterm(j) ==
    /\ Alive(j) /\ ~child[j].stopped /\ child[j].sigterm
    /\ child' = [child EXCEPT ![j] = exited(@, SIGTERM_RC)]
    /\ UNCHANGED <<cutterVars, queue, gui, vp, output, events>>

----------------------------------------------------------------------------
(* VideoProcessor: the methods the GUI thread calls *)

\* a variant of remove_output: cancel_processing leaves the file
remove_output_never(out, f, failed) == out

\* os.path.exists / os.remove of cancel_processing; the removal can fail,
\* which is printed and nothing more
remove_output(out, f, failed) == IF failed THEN out ELSE [out EXCEPT ![f] = 0]

\* VideoProcessor.pause_processing
pause_processing(j) ==
    /\ vp' = [vp EXCEPT ![j] = emit([@ EXCEPT !.is_paused = TRUE], j,
                                     {"status_updated", "paused"})]
    /\ child' = IF vp[j].process THEN [child EXCEPT ![j] = sigstop(@)] ELSE child

\* a variant of resume_processing: the loop forgets the progress it had
\* reached
resume_processing_rewind(j) ==
    /\ vp' = [vp EXCEPT ![j] = [@ EXCEPT !.is_paused = FALSE,
                                        !.current_progress = 0]]
    /\ child' = IF vp[j].process THEN [child EXCEPT ![j] = sigcont(@)] ELSE child

\* VideoProcessor.resume_processing
resume_processing(j) ==
    /\ vp' = [vp EXCEPT ![j] =
                 emit([@ EXCEPT !.is_paused = FALSE,
                                !.resumed_at =
                                    IF vp[j].process /\ vp[j].pc \in {"read", "line"}
                                    THEN Len(vp[j].consumed) ELSE @],
                      j, {"status_updated"})]
    /\ child' = IF vp[j].process THEN [child EXCEPT ![j] = sigcont(@)] ELSE child

\* the signals cancel_processing emits before finished: the status
\* "Processing cancelled" and cancelled
cancel_signals == {"status_updated", "cancelled"}

\* a variant of cancel_events: a removal that fails ends the job with the
\* exception
cancel_events_escalate(failed) ==
    IF failed THEN <<FinishedEv(FALSE, MsgException)>> ELSE <<Cancelled>>

\* the terminal event of cancel_processing: the exception of a removal
\* that fails is caught and printed
cancel_events(failed) == <<Cancelled>>

\* VideoProcessor.cancel_processing up to process.wait(): the flag, and the
\* termination request when a child is attached
cancel_begin(j) ==
    child' = IF vp[j].process THEN [child EXCEPT ![j] = terminate(@)] ELSE child

----------------------------------------------------------------------------
(* VideoProcessor.run, in the worker thread of job j *)

At(j, pc) == vp[j].pc = pc

\* run returns: its locals (current_progress, line, video_encoder and
\* hwaccel) are gone
returned(p) ==
    [p EXCEPT !.pc = "done", !.current_progress = 0, !.line = <<>>,
              !.encoder = NoEncoder]

\* a signal emitted by the worker thread; finished is queued to the GUI loop
WorkerEmit(j, es) == events' = [events EXCEPT ![j] = @ \o es]
WorkerFinished(j, ok) == queue' = Append(queue, <<j, ok>>)

\* if self.is_cancelled: return (before anything else); else the status
\* "Analyzing video..." and the call of get_video_duration
run_start(j) ==
    /\ At(j, "start")
    /\ vp' = [vp EXCEPT ![j] = IF vp[j].is_cancelled THEN returned(@)
                                ELSE emit([@ EXCEPT !.pc = "probe"], j,
                                          {"status_updated"})]
    /\ UNCHANGED <<cutterVars, queue, gui, child, output, events>>

\* a variant of run_probe without the test of total_duration: a failed
\* probe goes on to the command like a good one
run_probe_unchecked(j) ==
    /\ At(j, "probe")
    /\ \E d \in env.durations \cup {0} :
         vp' = [vp EXCEPT ![j] = [@ EXCEPT !.total_duration = d, !.pc = "command"]]
    /\ UNCHANGED <<cutterVars, queue, gui, child, output, events>>

\* get_video_duration returns (0 on any failure), then the two checks
run_probe(j) ==
    /\ At(j, "probe")
    /\ \E d \in env.durations \cup {0} :
         IF d = 0
         THEN /\ vp' = [vp EXCEPT ![j] = returned([@ EXCEPT !.total_duration = d])]
              /\ WorkerEmit(j, <<FinishedEv(FALSE, MsgNoDuration)>>)
              /\ WorkerFinished(j, FALSE)
         ELSE /\ vp' = [vp EXCEPT ![j] =
                            IF vp[j].is_cancelled
                            THEN returned([@ EXCEPT !.total_duration = d])
                            ELSE [@ EXCEPT !.total_duration = d, !.pc = "command"]]
              /\ UNCHANGED <<events, queue>>
    /\ UNCHANGED <<cutterVars, gui, child, output>>

\* get_optimal_encoder, whose probe can raise, the command built with its
\* choice, and the two status signals before the spawn
run_command(j) ==
    /\ At(j, "command")
    /\ \E probe \in env.encoder_probes :
         vp' = [vp EXCEPT ![j] =
                    emit([@ EXCEPT !.encoder = get_optimal_encoder(env.system, probe),
                                   !.probe_raised = probe.raises,
                                   !.pc = "spawn"],
                         j, {"status_updated"})]
    /\ UNCHANGED <<cutterVars, queue, gui, child, output, events>>

\* a variant of run_spawn: a Popen that succeeds is followed by a second
\* one
run_spawn_twice(j) ==
    /\ At(j, "spawn")
    /\ \E raises \in env.popen_raises :
         IF raises
         THEN /\ vp' = [vp EXCEPT ![j] = returned(@)]
              /\ WorkerEmit(j, <<FinishedEv(FALSE, MsgException)>>)
              /\ WorkerFinished(j, FALSE)
              /\ UNCHANGED child
         ELSE /\ vp' = [vp EXCEPT ![j].process = TRUE,
                                  ![j].current_progress = 0, ![j].pc = "read"]
              /\ child' = [child EXCEPT ![j] =
                               [NoChild EXCEPT !.state = "running",
                                               !.spawns = child[j].spawns + 2]]
              /\ UNCHANGED <<events, queue>>
    /\ UNCHANGED <<cutterVars, gui, output>>

\* subprocess.Popen, which can raise
run_spawn(j) ==
    /\ At(j, "spawn")
    /\ \E raises \in env.popen_raises :
         IF raises
         THEN /\ vp' = [vp EXCEPT ![j] = returned(@)]
              /\ WorkerEmit(j, <<FinishedEv(FALSE, MsgException)>>)
              /\ WorkerFinished(j, FALSE)
              /\ UNCHANGED child
         ELSE /\ vp' = [vp EXCEPT ![j].process = TRUE,
                                  ![j].current_progress = 0, ![j].pc = "read"]
              /\ child' = [child EXCEPT ![j] =
                               [NoChild EXCEPT !.state = "running",
                                               !.spawns = child[j].spawns + 1]]
              /\ UNCHANGED <<events, queue>>
    /\ UNCHANGED <<cutterVars, gui, output>>

\* self.process.stdout.readline: a line, or '' once the child has exited and
\* the pipe is drained; with a line, the first check of is_cancelled
run_readline(j) ==
    /\ At(j, "read")
    /\ \/ /\ child[j].pipe > 0
          /\ child' = [child EXCEPT ![j].pipe = @ - 1]
          /\ \E line \in env.lines :
               /\ Len(line) = 4 => Len(vp[j].consumed) < MaxLines
               /\ vp' = [vp EXCEPT ![j].line = line,
                                   ![j].pc = IF vp[j].is_cancelled THEN "after"
                                             ELSE "line"]
       \/ /\ child[j].pipe = 0 /\ Exited(j)
          /\ vp' = [vp EXCEPT ![j].pc = "after"]
          /\ UNCHANGED child
    /\ UNCHANGED <<cutterVars, queue, gui, output, events>>

\* while self.is_paused and not self.is_cancelled: self.msleep(100)
run_msleep(j) ==
    /\ At(j, "line")
    /\ vp[j].is_paused /\ ~vp[j].is_cancelled
    /\ UNCHANGED vars

\* the progress events of one line
line_events(line, total, current_progress) ==
    LET current_time == parse_ffmpeg_progress(line)
        progress == Percent(current_time, total)
    IN  IF current_time # NoTime /\ progress > current_progress
        THEN <<ProgressEv(progress)>>
        ELSE <<>>

\* the other signals of one line: with a progress event, the status
\* "Processing... p%" (the worker is past the pause wait: not paused) and the
\* time info
line_signals(es) ==
    IF es = <<>> THEN {}
    ELSE {"progress_updated", "status_updated", "time_info_updated"}

\* the rest of the loop body, once the pause wait is over
run_line(j) ==
    /\ At(j, "line")
    /\ ~(vp[j].is_paused /\ ~vp[j].is_cancelled)
    /\ IF vp[j].is_cancelled
       THEN /\ vp' = [vp EXCEPT ![j].pc = "after", ![j].line = <<>>]
            /\ UNCHANGED events
       ELSE LET es == line_events(vp[j].line, vp[j].total_duration,
                                  vp[j].current_progress)
            IN  /\ vp' = [vp EXCEPT ![j] =
                             emit([@ EXCEPT !.pc = "read", !.line = <<>>,
                                            !.current_progress =
                                                IF es = <<>> THEN @
                                                ELSE es[1].value,
                                            !.consumed =
                                                IF Len(vp[j].line) = 4
                                                THEN Append(@, vp[j].line)
                                                ELSE @],
                                  j, line_signals(es))]
                /\ WorkerEmit(j, es)
    /\ UNCHANGED <<cutterVars, queue, gui, child, output>>

\* if not self.is_cancelled: ... else: self.cancel_processing()
run_after(j) ==
    /\ At(j, "after")
    /\ IF ~vp[j].is_cancelled
       THEN /\ vp' = [vp EXCEPT ![j].pc = "communicate"]
            /\ UNCHANGED child
       ELSE /\ vp' = [vp EXCEPT ![j].pc = "cancel_wait"]
            /\ cancel_begin(j)
    /\ UNCHANGED <<cutterVars, queue, gui, output, events>>

\* a variant of exit_events: the return code is not looked at
exit_events_any(returncode, stderr) == <<ProgressEv(100), Completed>>

\* the events of a child that has exited
exit_events(returncode, stderr) ==
    IF returncode = 0
    THEN <<ProgressEv(100), Completed>>
    ELSE <<FFmpegFailed(returncode, stderr)>>

\* the other signals of a child that has exited: with the forced 100, the
\* status "Processing completed!" and the time info "Complete!"
exit_signals(returncode) ==
    IF returncode = 0
    THEN {"progress_updated", "status_updated", "time_info_updated"}
    ELSE {}

\* self.process.communicate(), which returns what is left of the two
\* streams, and the branch on the return code
run_communicate(j) ==
    /\ At(j, "communicate")
    /\ Exited(j)
    /\ vp' = [vp EXCEPT ![j] = emit(returned(@), j,
                                     exit_signals(child[j].returncode))]
    /\ child' = [child EXCEPT ![j].pipe = 0, ![j].errpipe = 0]
    /\ \E stderr \in env.stderr :
         WorkerEmit(j, exit_events(child[j].returncode, stderr))
    /\ WorkerFinished(j, child[j].returncode = 0)
    /\ UNCHANGED <<cutterVars, gui, output>>

\* cancel_processing called by run: self.process.wait()
run_cancel_wait(j) ==
    /\ At(j, "cancel_wait")
    /\ Exited(j)
    /\ vp' = [vp EXCEPT ![j].pc = "cancel_remove"]
    /\ UNCHANGED <<cutterVars, queue, gui, child, output, events>>

\* cancel_processing called by run: the removal and the three signals
run_cancel_finish(j) ==
    /\ At(j, "cancel_remove")
    /\ \E failed \in env.remove_raises :
         /\ failed => output[vp[j].file] # 0
         /\ output' = remove_output(output, vp[j].file, failed)
         /\ vp' = [vp EXCEPT ![j] =
                        emit(returned([@ EXCEPT !.remove_failed = @ \/ failed]),
                             j, cancel_signals)]
         /\ WorkerEmit(j, cancel_events(failed))
    /\ WorkerFinished(j, FALSE)
    /\ UNCHANGED <<cutterVars, gui, child>>

----------------------------------------------------------------------------
(* VideoIntervalCutter: the handlers of the GUI thread *)

\* The event loop runs when no handler does, and inside the modal boxes:
\* the question of cancel_processing and the "Complete" information of
\* process_next_file.  It does not run while the GUI thread is inside
\* VideoProcessor.cancel_processing.
LoopRuns == gui.pc \in {"idle", "cancel_dialog", "exit_dialog"}

\* A modal box takes the input: the user reaches the main window, or the
\* question box, only when no "Complete" box is open on top of it.
UserAt(pc) == gui.pc = pc /\ gui.boxes = 0

\* a variant of on_processing_finished: the batch stops at the job that just
\* ended, no timer is started for the next item
on_processing_finished_abort ==
    [current_processing |-> current_processing + 1,
     is_processing |-> FALSE,
     is_paused |-> FALSE,
     enabled |-> TRUE,
     timers |-> timers]

\* on_processing_finished: the new values of the fields it assigns
on_processing_finished ==
    LET next == current_processing + 1
        same == [current_processing |-> next,
                 is_processing |-> is_processing,
                 is_paused |-> cutter_is_paused,
                 enabled |-> process_btn_enabled,
                 timers |-> timers]
    IN  IF ~is_processing
        THEN [same EXCEPT !.enabled = TRUE]
        ELSE IF next >= NumFiles
        THEN [same EXCEPT !.is_processing = FALSE, !.is_paused = FALSE,
                          !.enabled = TRUE]
        ELSE [same EXCEPT !.timers = @ + 1]

\* process_next_file past the end-of-batch test: a new VideoProcessor for the
\* batch item idx (0-based), connected and started
dispatch(idx) ==
    /\ njobs < MaxJobs
    /\ njobs' = njobs + 1
    /\ processor' = njobs + 1
    /\ vp' = [vp EXCEPT ![njobs + 1] = [NewProcessor EXCEPT !.file = idx + 1,
                                                          !.pc = "start"]]

\* whether process_next_file takes its "all files processed" return
AllProcessed == current_processing >= NumFiles

\* start_processing, once the output directory is chosen.  The start button
\* is shown while not is_processing.
start_processing ==
    /\ UserAt("idle")
    /\ ~is_processing /\ process_btn_enabled
    /\ process_btn_enabled' = FALSE
    /\ current_processing' = 0
    /\ is_processing' = TRUE
    /\ cutter_is_paused' = FALSE
    /\ dispatch(0)
    /\ batch_cancelled' = FALSE
    /\ UNCHANGED <<timers, queue, gui, env, call, child, output, events>>

\* the single-shot timer fires: process_next_file, which ends a batch with
\* the information box "All videos have been processed!"
process_next_file ==
    /\ LoopRuns
    /\ timers > 0
    /\ timers' = timers - 1
    /\ IF AllProcessed
       THEN /\ is_processing' = FALSE
            /\ process_btn_enabled' = TRUE
            /\ gui' = [gui EXCEPT !.boxes = @ + 1]
            /\ UNCHANGED <<processor, njobs, vp>>
       ELSE /\ dispatch(current_processing)
            /\ UNCHANGED <<is_processing, process_btn_enabled, gui>>
    /\ UNCHANGED <<current_processing, cutter_is_paused, env, call, queue,
                   child, output, events, batch_cancelled>>

\* the user closes the topmost "Complete" box: QMessageBox.information
\* returns, and process_next_file with it
complete_ok ==
    /\ gui.boxes > 0
    /\ gui' = [gui EXCEPT !.boxes = @ - 1]
    /\ UNCHANGED <<cutterVars, queue, vp, child, output, events>>

\* a queued finished signal reaches its slot
deliver_finished ==
    /\ LoopRuns
    /\ queue # <<>>
    /\ queue' = Tail(queue)
    /\ LET r == on_processing_finished
       IN  /\ current_processing' = r.current_processing
           /\ is_processing' = r.is_processing
           /\ cutter_is_paused' = r.is_paused
           /\ process_btn_enabled' = r.enabled
           /\ timers' = r.timers
    /\ UNCHANGED <<processor, njobs, env, call, gui, vp, child, output, events,
                   batch_cancelled>>

\* VideoIntervalCutter.pause_processing: the pause button toggles
cutter_pause_processing ==
    /\ UserAt("idle")
    /\ processor # 0 /\ is_processing
    /\ IF ~cutter_is_paused
       THEN pause_processing(processor)
       ELSE resume_processing(processor)
    /\ cutter_is_paused' = ~cutter_is_paused
    /\ UNCHANGED <<current_processing, is_processing, processor,
                   process_btn_enabled, timers, njobs, env, call, queue, gui,
                   output, events, batch_cancelled>>

\* VideoIntervalCutter.cancel_processing: the question box opens
cancel_click ==
    /\ UserAt("idle")
    /\ processor # 0 /\ is_processing
    /\ gui' = [gui EXCEPT !.pc = "cancel_dialog"]
    /\ UNCHANGED <<cutterVars, queue, vp, child, output, events>>

\* the answer is No
cancel_no ==
    /\ UserAt("cancel_dialog")
    /\ gui' = [gui EXCEPT !.pc = "idle"]
    /\ UNCHANGED <<cutterVars, queue, vp, child, output, events>>

\* the answer is Yes: self.processor.cancel_processing() starts
cancel_yes ==
    /\ UserAt("cancel_dialog")
    /\ vp' = [vp EXCEPT ![processor].is_cancelled = TRUE]
    /\ cancel_begin(processor)
    /\ gui' = [gui EXCEPT !.pc = IF vp[processor].process THEN "cancel_wait"
                                 ELSE "cancel_remove",
                          !.job = processor]
    /\ batch_cancelled' = (batch_cancelled \/ vp[processor].pc # "done")
    /\ UNCHANGED <<current_processing, is_processing, cutter_is_paused,
                   processor, process_btn_enabled, timers, njobs, env, call, queue,
                   output, events>>

\* self.process.wait() in the GUI thread
gui_cancel_wait ==
    /\ gui.pc = "cancel_wait"
    /\ Exited(gui.job)
    /\ gui' = [gui EXCEPT !.pc = "cancel_remove"]
    /\ UNCHANGED <<cutterVars, queue, vp, child, output, events>>

\* the removal, finished emitted in the GUI thread (the slot runs inside the
\* emit), and the rest of VideoIntervalCutter.cancel_processing
gui_cancel_finish ==
    /\ gui.pc = "cancel_remove"
    /\ LET j == gui.job
           r == on_processing_finished
       IN  /\ \E failed \in env.remove_raises :
                /\ failed => output[vp[j].file] # 0
                /\ output' = remove_output(output, vp[j].file, failed)
                /\ vp' = [vp EXCEPT ![j] =
                               emit([@ EXCEPT !.remove_failed = @ \/ failed],
                                    j, cancel_signals)]
                /\ events' = [events EXCEPT ![j] = @ \o cancel_events(failed)]
           /\ current_processing' = r.current_processing
           /\ timers' = r.timers
           /\ process_btn_enabled' = r.enabled
           /\ is_processing' = FALSE
           /\ cutter_is_paused' = FALSE
    /\ gui' = [gui EXCEPT !.pc = "idle", !.job = 0]
    /\ UNCHANGED <<processor, njobs, env, call, queue, child, batch_cancelled>>

----------------------------------------------------------------------------

Worker(j) ==
    \/ run_start(j) \/ run_probe(j) \/ run_command(j) \/ run_spawn(j)
    \/ run_readline(j)
    \/ run_msleep(j) \/ run_line(j) \/ run_after(j) \/ run_communicate(j)
    \/ run_cancel_wait(j) \/ run_cancel_finish(j)

Child(j) == child_open(j) \/ child_write(j) \/ child_exit(j) \/ child_sigterm(j)

\* what the user can do
User ==
    \/ start_processing \/ cutter_pause_processing
    \/ cancel_click \/ cancel_no \/ cancel_yes \/ complete_ok

\* what the GUI thread does by itself
Loop == process_next_file \/ deliver_finished \/ gui_cancel_wait \/ gui_cancel_finish

(* The application: a batch of NumFiles plain files *)
Next == User \/ Loop \/ \E j \in Jobs : Worker(j) \/ Child(j)

Spec == Init /\ [][Next]_vars

\* QThread.isRunning
isRunning(j) == vp[j].pc \notin {"none", "done", "terminated"}

\* the window is closed and the application exits: the threads of the
\* process end with it, its child processes are other processes
exit_process ==
    /\ gui' = [gui EXCEPT !.pc = "closed"]
    /\ vp' = [j \in Jobs |-> IF isRunning(j)
                              THEN [vp[j] EXCEPT !.pc = "terminated"]
                              ELSE vp[j]]

\* VideoIntervalCutter.closeEvent: the question box when the processor
\* thread runs, the event accepted at once when it does not
closeEvent ==
    /\ UserAt("idle")
    /\ IF processor # 0 /\ isRunning(processor)
       THEN /\ gui' = [gui EXCEPT !.pc = "exit_dialog"]
            /\ UNCHANGED vp
       ELSE exit_process
    /\ UNCHANGED <<cutterVars, queue, child, output, events>>

\* the answer is No: event.ignore()
exit_no ==
    /\ UserAt("exit_dialog")
    /\ gui' = [gui EXCEPT !.pc = "idle"]
    /\ UNCHANGED <<cutterVars, queue, vp, child, output, events>>

\* the answer is Yes: self.processor.terminate(), wait(3000) and
\* event.accept()
exit_yes ==
    /\ UserAt("exit_dialog")
    /\ exit_process
    /\ UNCHANGED <<cutterVars, queue, child, output, events>>

(* One job in full: the first job of a batch, from the moment                *)
(* start_processing has started it to the moment the next one would start.   *)
JobInit ==
    /\ current_processing = 0
    /\ is_processing = TRUE
    /\ cutter_is_paused = FALSE
    /\ processor = 1
    /\ process_btn_enabled = FALSE
    /\ timers = 0
    /\ queue = <<>>
    /\ gui = [pc |-> "idle", job |-> 0, boxes |-> 0]
    /\ njobs = 1
    /\ env = FullEnv
    /\ call = NoCall
    /\ vp = [j \in Jobs |-> IF j = 1
                           THEN [NewProcessor EXCEPT !.file = 1, !.pc = "start"]
                           ELSE NewProcessor]
    /\ child = [j \in Jobs |-> NoChild]
    /\ output = [f \in 1..NumFiles |-> 0]
    /\ events = [j \in Jobs |-> <<>>]
    /\ batch_cancelled = FALSE

JobUser == cutter_pause_processing \/ cancel_click \/ cancel_no \/ cancel_yes
JobLoop == deliver_finished \/ gui_cancel_wait \/ gui_cancel_finish
JobNext == JobUser \/ JobLoop \/ Worker(1) \/ Child(1)

JobSpec == JobInit /\ [][JobNext]_vars

\* The same job, with a user who may also close the window.
CloseNext == JobNext \/ closeEvent \/ exit_no \/ exit_yes
CloseSpec == JobInit /\ [][CloseNext]_vars

\* The threads are scheduled and the child runs: whatever the worker, the
\* child or the GUI thread can do by itself is done in the end.  Nothing is
\* assumed of the user.
FairJobSpec ==
    JobSpec /\ WF_vars(JobLoop) /\ WF_vars(Worker(1)) /\ WF_vars(Child(1))

(* A batch the user lets run: started, paused and resumed at will, never    *)
(* cancelled.                                                                *)
BatchWorker(j) ==
    \/ run_start(j) \/ run_probe(j) \/ run_command(j) \/ run_spawn(j)
    \/ run_readline(j)
    \/ run_msleep(j) \/ run_line(j) \/ run_after(j) \/ run_communicate(j)

BatchChild(j) == child_open(j) \/ child_write(j) \/ child_exit(j)

BatchUser == start_processing \/ cutter_pause_processing
BatchLoop == process_next_file \/ deliver_finished
BatchNext == BatchUser \/ BatchLoop \/ \E j \in Jobs : BatchWorker(j) \/ BatchChild(j)

\* The event loop, the worker threads and the children run; nothing is
\* assumed of the user.
FairBatchSpec ==
    /\ Init /\ [][BatchNext]_vars
    /\ WF_vars(BatchLoop)
    /\ \A j \in Jobs : WF_vars(BatchWorker(j)) /\ WF_vars(BatchChild(j))

(* One job nobody pauses or cancels, whose ffmpeg writes to its standard    *)
(* error as well.                                                            *)
PipeInit ==
    /\ current_processing = 0
    /\ is_processing = TRUE
    /\ cutter_is_paused = FALSE
    /\ processor = 1
    /\ process_btn_enabled = FALSE
    /\ timers = 0
    /\ queue = <<>>
    /\ gui = [pc |-> "idle", job |-> 0, boxes |-> 0]
    /\ njobs = 1
    /\ env = PipeEnv
    /\ call = NoCall
    /\ vp = [j \in Jobs |-> IF j = 1
                           THEN [NewProcessor EXCEPT !.file = 1, !.pc = "start"]
                           ELSE NewProcessor]
    /\ child = [j \in Jobs |-> NoChild]
    /\ output = [f \in 1..NumFiles |-> 0]
    /\ events = [j \in Jobs |-> <<>>]
    /\ batch_cancelled = FALSE

PipeWorker(j) ==
    \/ run_start(j) \/ run_probe(j) \/ run_command(j) \/ run_spawn(j)
    \/ run_readline(j) \/ run_line(j) \/ run_after(j) \/ run_communicate(j)

PipeNext ==
    \/ PipeWorker(1)
    \/ child_open(1) \/ child_write(1) \/ child_write_err(1) \/ child_exit(1)
    \/ deliver_finished

\* The worker is scheduled, and the child opens its output and exits in the
\* end whenever it is not blocked.
FairPipeSpec ==
    /\ PipeInit /\ [][PipeNext]_vars
    /\ WF_vars(PipeWorker(1))
    /\ WF_vars(child_open(1)) /\ WF_vars(child_exit(1))
    /\ WF_vars(deliver_finished)

(* The functions checked by themselves: each step is one call, on any      *)
(* arguments.                                                                *)
programVars ==
    <<current_processing, is_processing, cutter_is_paused, processor,
      process_btn_enabled, timers, queue, gui, njobs, env, vp, child, output,
      events, batch_cancelled>>

call_select ==
    /\ \E take_duration \in 1..MaxTake, skip_duration \in 1..MaxSkip,
          t \in 0..MaxTicks :
         call' = [fn |-> "select",
                  take_duration |-> take_duration,
                  skip_duration |-> skip_duration,
                  cycle_duration |-> cycle_duration(take_duration, skip_duration),
                  t |-> t,
                  selected |-> select(t, cycle_duration(take_duration, skip_duration),
                                      take_duration)]
    /\ UNCHANGED programVars

call_get_optimal_encoder ==
    /\ \E system \in Platforms, probe \in EncoderProbes :
         call' = [fn |-> "get_optimal_encoder",
                  system |-> system, probe |-> probe,
                  result |-> get_optimal_encoder(system, probe)]
    /\ UNCHANGED programVars

\* Lines ffmpeg writes with -progress pipe:1 and on its statistics line,
\* and lines without a timestamp.
Chars2(n) == <<DigitChars[(n \div 10) + 1], DigitChars[(n % 10) + 1]>>
Stamp(hh, mm, ss, cc) ==
    Chars2(hh) \o <<":">> \o Chars2(mm) \o <<":">> \o Chars2(ss) \o <<".">>
        \o Chars2(cc)
TimeEq == <<"t", "i", "m", "e", "=">>
LineKinds ==
    {"time", "stats", "out_time", "two", "N/A", "one_digit", "hours100",
     "comma", "key", "blank"}
TextLine(kind, hh, mm, ss, cc) ==
    CASE kind = "time" -> TimeEq \o Stamp(hh, mm, ss, cc)
      [] kind = "stats" ->
             <<"f", "p", "s", "=", "3", "0", " ">> \o TimeEq
                 \o Stamp(hh, mm, ss, cc) \o <<" ", "b", "i", "t">>
      [] kind = "out_time" ->
             <<"o", "u", "t", "_">> \o TimeEq \o Stamp(hh, mm, ss, cc)
                 \o <<"0", "0", "0", "0">>
      [] kind = "two" ->
             TimeEq \o Stamp(hh, mm, ss, cc) \o <<" ">> \o TimeEq
                 \o Stamp(99, 59, 59, 99)
      [] kind = "N/A" -> TimeEq \o <<"N", "/", "A">>
      [] kind = "one_digit" ->
             TimeEq \o <<DigitChars[(hh % 10) + 1], ":">> \o Chars2(mm)
                 \o <<":">> \o Chars2(ss) \o <<".">> \o Chars2(cc)
      [] kind = "hours100" -> TimeEq \o <<"1">> \o Stamp(hh, mm, ss, cc)
      [] kind = "comma" ->
             TimeEq \o Chars2(hh) \o <<":">> \o Chars2(mm) \o <<":">>
                 \o Chars2(ss) \o <<",">> \o Chars2(cc)
      [] kind = "key" ->
             <<"p", "r", "o", "g", "r", "e", "s", "s", "=", "e", "n", "d">>
      [] OTHER -> <<>>
Hours == {0, 1, 10}
Minutes == {0, 59}
Seconds == {0, 12, 59}
Hundredths == {0, 5, 50, 99}

\* parse_ffmpeg_progress of every line, each parsed twice
parse_calls ==
    {[fn |-> "parse_ffmpeg_progress",
      kind |-> x[1], hh |-> x[2], mm |-> x[3], ss |-> x[4], cc |-> x[5],
      line |-> TextLine(x[1], x[2], x[3], x[4], x[5]),
      current_time |-> parse_line(TextLine(x[1], x[2], x[3], x[4], x[5])),
      again |-> parse_line(TextLine(x[1], x[2], x[3], x[4], x[5]))] :
        x \in LineKinds \X Hours \X Minutes \X Seconds \X Hundredths}

\* parse_ffmpeg_progress of one line
call_parse_ffmpeg_progress ==
    /\ \E c \in parse_calls : call' = c
    /\ UNCHANGED programVars

\* Timestamps and durations (whole seconds) for the percentage.
Elapsed ==
    {<<0, 0, ss, cc>> : ss \in {0, 1, 5, 12, 57, 58}, cc \in {0, 25, 29, 50}}
Totals == {1, 2, 10, 25, 100}

\* the percentage of every timestamp and duration
percent_calls ==
    {[fn |-> "percent",
      line |-> x[1],
      current_time |-> parse_ffmpeg_progress(x[1]),
      total_duration |-> x[2],
      progress |-> float_percent(x[1], x[2])] : x \in Elapsed \X Totals}

\* the percentage the read loop computes for one line
call_percent ==
    /\ \E c \in percent_calls : call' = c
    /\ UNCHANGED programVars

\* the command built for the choice made on any platform from any list of
\* encoders
call_command ==
    /\ \E system \in Platforms, probe \in EncoderProbes :
         LET choice == get_optimal_encoder(system, probe)
         IN  call' = [fn |-> "command",
                      system |-> system, probe |-> probe,
                      choice |-> choice,
                      input_path |-> "input.mp4",
                      output_path |-> "cut_input_take5s_skip10s.mp4",
                      branch |-> tuning_branch(choice.video_encoder),
                      cmd |-> command(choice, "input.mp4",
                                      "cut_input_take5s_skip10s.mp4")]
    /\ UNCHANGED programVars

PureNext ==
    \/ call_select
    \/ call_get_optimal_encoder
    \/ call_command
    \/ call_parse_ffmpeg_progress
    \/ call_percent

PureSpec == Init /\ [][PureNext]_vars

----------------------------------------------------------------------------
(* Properties *)

Range(q) == {q[i] : i \in 1..Len(q)}

\* the events a step adds to the history of job j
Added(j) == SubSeq(events'[j], Len(events[j]) + 1, Len(events'[j]))

\* the worker thread of job j exists and run has not returned
Running(j) == vp[j].pc \notin {"none", "done", "terminated"}

\* C1: a job emits its terminal event (finished) once: never a second
\* finished for the same VideoProcessor, however run interleaves with
\* pause_processing, resume_processing and cancel_processing.
C1_OneTerminalEvent == \A j \in Jobs : Len(Terminal(j)) <= 1

\* C2: when cancel_processing is called on a paused job (the child is
\* stopped and the caller is in process.wait()), the wait returns and the
\* job emits Cancelled in the end.
C2_CancelWhilePausedReturns ==
    \A j \in Jobs :
        (gui.pc = "cancel_wait" /\ gui.job = j /\ child[j].stopped)
            ~> (gui.pc = "idle" /\ Cancelled \in Range(events[j]))

\* C3: at most one worker runs and at most one ffmpeg child lives at a time.
C3_OneJobAtATime ==
    /\ Cardinality({j \in Jobs : Running(j)}) <= 1
    /\ Cardinality({j \in Jobs : Alive(j)}) <= 1

\* C4: once the user has cancelled the batch, no VideoProcessor is created
\* and started until start_processing is called again.
C4_NoDispatchAfterCancel ==
    [][(batch_cancelled /\ batch_cancelled') => njobs' = njobs]_vars

\* C5: a job that has emitted Completed is left alone: it emits nothing
\* more and its output file is not deleted; and the job that emits Completed
\* has emitted no other terminal event and has its output file.
C5_CompletedUntouched ==
    [][\A j \in Jobs :
          /\ Completed \in Range(events[j]) =>
                /\ events'[j] = events[j]
                /\ output[vp[j].file] = j => output'[vp[j].file] # 0
          /\ (Completed \notin Range(events[j]) /\ Completed \in Range(events'[j])) =>
                /\ Terminal(j) = <<>>
                /\ output'[vp[j].file] # 0]_vars

\* C6: once cancel_processing has been called on a job and has returned,
\* and run has returned, the job's output file does not exist, unless
\* os.remove failed.
C6_CancelledOutputAbsent ==
    \A j \in Jobs :
        (vp[j].is_cancelled /\ vp[j].pc = "done" /\ gui.job # j
            /\ ~vp[j].remove_failed)
        => output[vp[j].file] = 0

\* the output of a child that exited with 0 was removed by a cancel
C6_Witness ==
    /\ vp[1].is_cancelled /\ vp[1].pc = "done" /\ gui.job # 1
    /\ ~vp[1].remove_failed
    /\ child[1].state = "exited" /\ child[1].returncode = 0
    /\ output[1] = 0

\* C7: once cancel_processing has been called on a job, the only terminal
\* event the job emits is Cancelled: never Completed, never a failure.
C7_CancelledOutcome ==
    [][\A j \in Jobs :
          vp[j].is_cancelled =>
              \A e \in Range(Added(j)) : IsFinished(e) => e = Cancelled]_vars

\* C8: the percent values a job emits through progress_updated never
\* decrease and lie in 0..100.
C8_ProgressMonotone ==
    \A j \in Jobs :
        LET p == Progress(j)
        IN  \A i \in 1..Len(p) :
                /\ p[i].value \in 0..100
                /\ i > 1 => p[i - 1].value <= p[i].value

\* three lines raised the percent, the last one past the end, and the job
\* completed
C8_Witness ==
    /\ Len(Progress(1)) = 4
    /\ Progress(1)[1].value = 20 /\ Progress(1)[2].value = 50
    /\ Progress(1)[3].value = 100
    /\ Completed \in Range(events[1])

\* C9: no percent value is emitted twice by a job: the emitted values
\* increase strictly, the snapshot forced on completion included.
C9_ProgressStrict ==
    \A j \in Jobs :
        LET p == Progress(j)
        IN  \A i \in 2..Len(p) : p[i - 1].value < p[i].value

\* C10: a job that has emitted Completed has emitted exactly one progress
\* event of value 100 before it.
C10_OneHundredOnce ==
    \A j \in Jobs :
        Completed \in Range(events[j]) =>
            LET k == CHOOSE i \in 1..Len(events[j]) : events[j][i] = Completed
            IN  Cardinality({i \in 1..(k - 1) : events[j][i] = ProgressEv(100)}) = 1

\* C11: a job emits nothing after its terminal event: no progress, status
\* or time-info signal follows the first finished of a job on which
\* cancel_processing was called, however the read loop of run interleaves
\* with cancel_processing in the GUI thread.
C11_TerminalIsLast ==
    \A j \in Jobs :
        vp[j].is_cancelled =>
            vp[j].late \cap {"progress_updated", "status_updated",
                             "time_info_updated"} = {}

\* the only terminal event of job j is a failure
Failed(j) == Len(Terminal(j)) = 1 /\ ~Terminal(j)[1].success

\* C12: a failed job does not end a batch that is not cancelled: when a
\* job has ended Failed and its item is not the last of the list, the next
\* item of the list is dispatched in the end (as long as the instances
\* modelled allow one more).
C12_FailureDoesNotAbortBatch ==
    \A j \in Jobs :
        (Failed(j) /\ vp[j].file < NumFiles /\ njobs < MaxJobs)
            ~> (\E k \in Jobs : vp[k].file = vp[j].file + 1)

\* batch of three: the probe of job 2 failed and job 3 was started on the
\* third item
C12_Witness ==
    /\ events[2] = <<FinishedEv(FALSE, MsgNoDuration)>>
    /\ vp[2].file = 2
    /\ Completed \in Range(events[1])
    /\ vp[3].file = 3 /\ vp[3].pc # "none"

\* C13: the "All videos have been processed!" box of process_next_file is
\* shown only when every item of the list has been given to a VideoProcessor
\* that has emitted its terminal event.
C13_CompleteOnlyWhenAllDone ==
    gui.boxes > 0 =>
        \A f \in 1..NumFiles :
            \E j \in Jobs : vp[j].file = f /\ Terminal(j) # <<>>

\* C14: a job whose duration probe fails emits one Failed ("Could not
\* determine video duration") and run returns; after that run emits no
\* other terminal event for the job, and no ffmpeg child is ever spawned
\* for it.
C14_ProbeFailureFails ==
    [][\A j \in Jobs :
          /\ (At(j, "probe") /\ vp'[j].pc # "probe" /\ vp'[j].total_duration = 0) =>
                /\ Added(j) = <<FinishedEv(FALSE, MsgNoDuration)>>
                /\ vp'[j].pc = "done"
          /\ (vp[j].pc = "done" /\ vp[j].total_duration = 0) =>
                /\ \A e \in Range(Added(j)) : IsFinished(e) => e = Cancelled
                /\ vp'[j].pc = "done"
          /\ vp'[j].total_duration = 0 => child'[j].state = "none"]_vars

\* the probe of job 1 failed: the failure is its only event, and it has no
\* child
C14_Witness ==
    /\ vp[1].pc = "done" /\ vp[1].total_duration = 0
    /\ events[1] = <<FinishedEv(FALSE, MsgNoDuration)>>
    /\ child[1].state = "none"
    /\ queue = <<>>

\* C15: the terminal event of a job that was not cancelled and whose read
\* loop has ended follows the exit status of the child: Completed for 0,
\* and for any other status a Failed that carries the status and the text
\* captured from the child's standard error; Completed is never emitted for
\* a child that exited with another status than 0.
C15_OutcomeFollowsExitStatus ==
    \A j \in Jobs :
        /\ (~vp[j].is_cancelled /\ vp[j].pc = "done" /\ Exited(j)) =>
              IF child[j].returncode = 0
              THEN Terminal(j) = <<Completed>>
              ELSE \E stderr \in env.stderr :
                       Terminal(j) = <<FFmpegFailed(child[j].returncode, stderr)>>
        /\ Completed \in Range(events[j]) =>
              Exited(j) /\ child[j].returncode = 0

\* ffmpeg exited with 1 and an error text: the job failed with both
C15_Witness ==
    /\ ~vp[1].is_cancelled /\ vp[1].pc = "done"
    /\ Exited(1) /\ child[1].returncode = 1
    /\ Terminal(1) = <<FFmpegFailed(1, "Conversion failed!")>>

\* C16: pause_processing and resume_processing called on a VideoProcessor
\* that has no child attached change nothing: while self.process is None
\* the paused flag keeps its value.
C16_PauseWithoutChildIsNoOp ==
    [][\A j \in Jobs :
          (~vp[j].process /\ ~vp'[j].process) =>
              vp'[j].is_paused = vp[j].is_paused]_vars

\* the progress events of the read loop run over the lines ls with
\* is_paused never set: lines 271-293 without the wait of lines 277-278
RECURSIVE unpaused_run(_, _, _)
unpaused_run(ls, total, current_progress) ==
    IF ls = <<>> THEN <<>>
    ELSE LET es == line_events(Head(ls), total, current_progress)
         IN  es \o unpaused_run(Tail(ls), total,
                                IF es = <<>> THEN current_progress
                                ELSE es[1].value)

\* the progress events job j has emitted from its read loop: all but the
\* 100 forced on completion
LoopProgress(j) ==
    IF Completed \in Range(events[j])
    THEN SubSeq(Progress(j), 1, Len(Progress(j)) - 1)
    ELSE Progress(j)

\* C17: whatever pause_processing and resume_processing are called during
\* the read loop, the progress events the loop has emitted are those of an
\* unpaused run over the same lines: none skipped, none duplicated.
C17_PauseResumeSameProgress ==
    \A j \in Jobs :
        vp[j].consumed # <<>> =>
            LoopProgress(j) = unpaused_run(vp[j].consumed, vp[j].total_duration, 0)

\* the job was paused and resumed after the first of three lines that
\* raised the percent, and completed
C17_Witness ==
    /\ vp[1].resumed_at = 1
    /\ Len(vp[1].consumed) = 3
    /\ Len(LoopProgress(1)) = 3
    /\ Completed \in Range(events[1])
    /\ ~vp[1].is_cancelled

\* C18: the cycle is take + skip, and the select expression of the command
\* keeps no sample whose time modulo the cycle lies in [take, cycle), the
\* value take included.
C18_SelectSkipsSkipWindow ==
    call.fn = "select" =>
        /\ call.cycle_duration = call.take_duration + call.skip_duration
        /\ LET m == call.t % (call.cycle_duration * TicksPerSecond)
           IN  (call.take_duration * TicksPerSecond <= m
                    /\ m < call.cycle_duration * TicksPerSecond)
               => ~call.selected

\* the preference order of a platform, and the acceleration of an encoder
Preference(system) ==
    CASE system = "Darwin" -> <<"h264_videotoolbox">>
      [] system = "Windows" -> <<"h264_nvenc", "h264_qsv">>
      [] system = "Linux" -> <<"h264_nvenc", "h264_vaapi">>
      [] OTHER -> <<>>

Acceleration(video_encoder) ==
    CASE video_encoder = "h264_videotoolbox" -> "videotoolbox"
      [] video_encoder = "h264_nvenc" -> "cuda"
      [] video_encoder = "h264_qsv" -> "qsv"
      [] video_encoder = "h264_vaapi" -> "vaapi"

\* C19: on every platform and for every list of encoders reported,
\* get_optimal_encoder returns the first encoder of the platform's
\* preference order that is in the list, and libx264 with no acceleration
\* ("auto": no -hwaccel) when none of them is, whatever the platform.
C19_FirstMatchOrSoftware ==
    (call.fn = "get_optimal_encoder" /\ ~call.probe.raises) =>
        LET pref == Preference(call.system)
            hits == {i \in 1..Len(pref) : pref[i] \in call.probe.encoders}
        IN  IF hits = {}
            THEN call.result = Choice("libx264", "auto")
            ELSE LET first == pref[CHOOSE i \in hits : \A k \in hits : i <= k]
                 IN  call.result = Choice(first, Acceleration(first))

\* on Linux both NVENC and VAAPI are reported: NVENC is chosen
C19_Witness ==
    /\ call.fn = "get_optimal_encoder"
    /\ call.system = "Linux"
    /\ call.probe.encoders = {"h264_nvenc", "h264_vaapi", "libx264"}
    /\ call.result = Choice("h264_nvenc", "cuda")

\* C20: when the probe of get_optimal_encoder raises, the choice is libx264
\* with no acceleration, no failure is emitted for it, and run goes on to
\* the spawn: the child is started with that choice, unless Popen itself
\* raises.
C20_EncoderProbeFailureAbsorbed ==
    \A j \in Jobs :
        vp[j].probe_raised =>
            /\ vp[j].pc # "done" => vp[j].encoder = Choice("libx264", "auto")
            /\ vp[j].pc = "spawn" => \A e \in Range(Terminal(j)) : e = Cancelled
            /\ vp[j].pc # "spawn" =>
                  \/ vp[j].process /\ child[j].state # "none"
                  \/ FinishedEv(FALSE, MsgException) \in Range(events[j])

\* the probe raised and the child runs, encoding with libx264
C20_Witness ==
    /\ vp[1].probe_raised
    /\ vp[1].encoder = Choice("libx264", "auto")
    /\ vp[1].pc = "read" /\ Alive(1)
    /\ events[1] = <<>>

\* the positions of an argument in a command
Positions(cmd, arg) == {i \in 1..Len(cmd) : cmd[i] = arg}

\* C21: the command has -hwaccel exactly when the acceleration is not
\* "auto" (none); -hwaccel and its value then come before -i; and the
\* command ends with -y and the output path.
C21_CommandOrder ==
    call.fn = "command" =>
        LET cmd == call.cmd
            hw == Positions(cmd, "-hwaccel")
        IN  /\ (hw # {}) <=> (call.choice.hwaccel # "auto")
            /\ \A h \in hw :
                  /\ cmd[h + 1] = call.choice.hwaccel
                  /\ \A i \in Positions(cmd, "-i") : h + 1 < i
            /\ Positions(cmd, "-i") # {}
            /\ cmd[Len(cmd) - 1] = "-y"
            /\ cmd[Len(cmd)] = call.output_path

\* the command for NVENC: -hwaccel cuda right after the program
C21_Witness ==
    /\ call.fn = "command"
    /\ call.choice = Choice("h264_nvenc", "cuda")
    /\ SubSeq(call.cmd, 2, 5) = <<"-hwaccel", "cuda", "-i", "input.mp4">>

\* C22: for every encoder get_optimal_encoder returns, one branch of the
\* encoder-specific options applies when the command is built: never none
\* (the chain is if/elif: never more than one).
C22_OneTuningBranch == call.fn = "command" => call.branch # "none"

\* the kinds of line that hold time= followed by HH:MM:SS.hh
Stamped == {"time", "stats", "out_time", "two"}

\* C23: parse_ffmpeg_progress of a line with time=HH:MM:SS.hh is
\* 3600*HH + 60*MM + SS + hh/100 (here in hundredths of a second) for the
\* first such timestamp; of a line without the pattern it is None; the
\* same line parsed twice gives the same result; program state is not
\* touched.
C23_ParseIsPure ==
    [][call'.fn = "parse_ffmpeg_progress" =>
          /\ call'.kind \in Stamped =>
                call'.current_time
                    = 360000 * call'.hh + 6000 * call'.mm + 100 * call'.ss
                          + call'.cc
          /\ call'.kind \notin Stamped => call'.current_time = NoTime
          /\ call'.again = call'.current_time
          /\ UNCHANGED programVars]_vars

\* the statistics line with time=10:59:12.50 inside has been parsed
C23_Witness ==
    /\ call.fn = "parse_ffmpeg_progress"
    /\ call.kind = "stats"
    /\ <<call.hh, call.mm, call.ss, call.cc>> = <<10, 59, 12, 50>>
    /\ call.current_time = 3955250

\* C24: the percentage of a line is min(100, floor(elapsed / total * 100)),
\* for timestamps whose hundredths are a binary fraction (.00, .25, .50),
\* which elapsed holds without rounding.
C24_PercentIsFloor ==
    (call.fn = "percent" /\ call.line[4] \in {0, 25, 50}) =>
        call.progress
            = Min((call.current_time * 100) \div (call.total_duration * 100),
                  100)

\* C25: when a job emits its terminal event its child is not running, and
\* no child of the job runs after the terminal event, also when
\* cancel_processing runs between the worker's check of is_cancelled before
\* the spawn and the moment the child is attached to self.process.
C25_NoChildAfterTerminal ==
    \A j \in Jobs : Terminal(j) # <<>> => ~Alive(j)

\* C26: Completed and Failed are entered from Running only: while the
\* paused flag of a job with a child attached is set and the job is not
\* cancelled, no step emits Completed or a failure for it, and a worker
\* that is in the read loop stays in it.
C26_TerminalOnlyFromRunning ==
    [][\A j \in Jobs :
          (vp[j].is_paused /\ vp[j].process /\ ~vp[j].is_cancelled) =>
              /\ \A e \in Range(Added(j)) : IsFinished(e) => e = Cancelled
              /\ (vp[j].pc \in {"read", "line"} /\ ~vp'[j].is_cancelled) =>
                    vp'[j].pc \in {"read", "line"}]_vars

\* C27 as stated: a job never creates more than one child, and a job whose
\* run has returned without creating one had a failed probe or was
\* cancelled.
C27_ExactlyOneChild ==
    \A j \in Jobs :
        /\ child[j].spawns <= 1
        /\ (vp[j].pc = "done" /\ child[j].spawns = 0) =>
              vp[j].total_duration = 0 \/ vp[j].is_cancelled

\* C27, amended: a job never creates more than one child, under any
\* sequence of pause, resume and cancel; and a job whose run has returned
\* without creating one had a failed probe, was cancelled before the spawn,
\* or its spawn failed and it ended Failed with the exception.
C27_OneChildUnlessSpawnFails ==
    \A j \in Jobs :
        /\ child[j].spawns <= 1
        /\ vp[j].pc \in {"read", "line", "after", "communicate",
                         "cancel_wait", "cancel_remove"} =>
              child[j].spawns = 1
        /\ (vp[j].pc = "done" /\ child[j].spawns = 0) =>
              \/ vp[j].total_duration = 0
              \/ vp[j].is_cancelled
              \/ events[j] = <<FinishedEv(FALSE, MsgException)>>

\* a job that was paused and resumed and never cancelled has completed with
\* the one child it created
C27_Witness ==
    /\ vp[1].pc = "done" /\ ~vp[1].is_cancelled
    /\ vp[1].resumed_at > 0
    /\ Completed \in Range(events[1])
    /\ child[1].spawns = 1

\* C28: a removal of the output that fails during cancel_processing is not
\* escalated: the step in which it fails emits Cancelled and no other
\* terminal event, and the caller goes on (the GUI handler returns to the
\* event loop, run returns).
C28_RemoveFailureNotEscalated ==
    [][\A j \in Jobs :
          (~vp[j].remove_failed /\ vp'[j].remove_failed) =>
              /\ Added(j) = <<Cancelled>>
              /\ \/ /\ gui.pc = "cancel_remove" /\ gui.job = j
                     /\ gui'.pc = "idle" /\ ~is_processing'
                  \/ /\ vp[j].pc = "cancel_remove"
                     /\ vp'[j].pc = "done"]_vars

\* the removal failed: every terminal event of the job is Cancelled and
\* its output is still there
C28_Witness ==
    /\ vp[1].remove_failed
    /\ Range(Terminal(1)) = {Cancelled}
    /\ output[1] # 0
    /\ vp[1].pc = "done" /\ gui.pc = "idle"

\* C29: whenever the paused flag of a job is set and a live child is
\* attached to it, the child is suspended, also when pause_processing was
\* called before the child was spawned.
C29_PausedChildIsStopped ==
    \A j \in Jobs :
        (vp[j].is_paused /\ vp[j].process /\ Alive(j)) => child[j].stopped

\* C30: the batch never skips an item: every item of the list with index
\* below current_processing has been given to a VideoProcessor, under any
\* interleaving of cancel with the worker's own terminal event.
C30_NoItemSkipped ==
    \A f \in 1..Min(current_processing, NumFiles) :
        \E j \in Jobs : vp[j].pc # "none" /\ vp[j].file = f

\* C31: a job that was started and is never cancelled, whose child exits
\* once its output is drained, reaches a terminal state in the end, also
\* when the child writes more to its standard error than the pipe holds
\* while run reads the standard output only.
C31_JobTerminates ==
    \A j \in Jobs :
        (vp[j].pc = "start" /\ ~vp[j].is_cancelled) ~> (Terminal(j) # <<>>)

\* C32: while a batch is processed, VideoIntervalCutter.is_paused is true
\* exactly when is_paused of the active VideoProcessor (self.processor) is
\* true, after any pause and resume toggles and hand-overs from one item
\* to the next.
C32_PausedFlagsAgree ==
    (is_processing /\ processor # 0) =>
        cutter_is_paused = vp[processor].is_paused

\* C33: once the application has been closed, after the user confirmed the
\* exit while a job was running, no ffmpeg child started by it is left
\* running.
C33_NoChildLeftAfterExit ==
    gui.pc = "closed" => \A j \in Jobs : ~Alive(j)

====
